---- MODULE Spec2Model ----
(***************************************************************************)
(* A model of DeepTile: index computation (deeptile/utils.py), stitching   *)
(* (deeptile/deeptile.py) and tile processing (deeptile/core/process.py).  *)
(*                                                                         *)
(* Overlap fractions are exact rationals <<num, den>>; arrays are          *)
(* sequences (1-based in the model, 0-based in the code, so element k of   *)
(* the code is element k+1 of the model).                                  *)
(***************************************************************************)
EXTENDS Integers, Sequences, FiniteSets, TLC

VARIABLES
    call,            \* arguments of one calculate_indices_1d call
    ret,             \* what that call produced: a result or an error
    self,            \* the DeepTile object: image, tile_size, overlap, n_blocks,
                     \*   tile_indices, border_indices, stitch_indices
    tiles,           \* grid of tiles (None where the source has no tile)
    masks,           \* grid of per-tile label masks (None for None tiles)
    stitched,        \* stitched_image / stitched_mask[z]
    total_count,     \* running label counter of _stitch_masks
    border_cells,    \* what _find_border_cells returned
    cursor,          \* position of the running loop of _stitch_masks
    pc,              \* position in segment_image / stitch_nd2 / processing
    proc             \* a processing call: its arguments, the calls made of
                     \*   the user function, and the processed tiles so far

vars == <<call, ret, self, tiles, masks, stitched, total_count, border_cells,
          cursor, pc, proc>>

(***************************************************************************)
(* Bounds of the index computation.                                        *)
(***************************************************************************)
MaxAxis == 7
MaxTile == 5
MaxDen == 5

(***************************************************************************)
(* Bounds of the stitching model: image and tile sizes, overlap            *)
(* denominators, missing tiles, and the content of the masks.              *)
(***************************************************************************)
MaxRows == 2
MaxCols == 3
MaxTile2 == 2
MaxDen2 == 2
MaxMissing == 1
MaxFg == 3
MaxLabel == 2

(***************************************************************************)
(* Bounds of the geometry model (tiling and stitching of a known image).   *)
(***************************************************************************)
MaxGeomRows == 4
MaxGeomCols == 4
MaxGeomTile == 3
MaxGeomDen == 3

(***************************************************************************)
(* Bounds of the processing model: the grid of the tiles handed to the     *)
(* user function.                                                          *)
(***************************************************************************)
MaxProcRows == 2
MaxProcCols == 3

\* Vectorized processing: batch sizes, first-axis lengths of a tile, and
\* sub-tiles per cell.
MaxBatch == 4
MaxShape0 == 4
MaxSub == 2

\* TileArrays passed to one call.
MaxInputs == 2

\* The invocation from which a user function may deviate.
MaxDeviatesFrom == 2

\* Scatters into one grid: how many, the distinct results, and the largest
\* batch axis of utils.update_tiles.
MaxScatters == 3
MaxPayload == 2
MaxBatchAxis == 2

(***************************************************************************)
(* Arithmetic helpers.                                                     *)
(***************************************************************************)
\* np.rint / Python round of the non-negative rational n/d: half to even.
Rint(n, d) ==
    LET q == n \div d
        r == n % d
    IN  IF 2 * r < d THEN q
        ELSE IF 2 * r > d THEN q + 1
        ELSE IF q % 2 = 0 THEN q ELSE q + 1

\* np.ceil of the rational a/b, b # 0.
Ceil(a, b) ==
    IF b > 0 THEN -((-a) \div b) ELSE -(a \div (-b))

\* The limits a float -> int64 cast can saturate to, scaled to TLC's integers.
IntMin == -(2^30)
IntMax == 2^30

\* np.arange(n): 0 .. n-1, empty for n <= 0.
Arange(n) ==
    IF n > 0 THEN [k \in 1..n |-> k - 1] ELSE << >>

\* np.arange(1, n): 1 .. n-1, empty for n <= 1.
Arange1(n) ==
    IF n > 1 THEN [k \in 1..(n - 1) |-> k] ELSE << >>

\* ary[:-1]
DropLast(s) ==
    IF Len(s) = 0 THEN << >> ELSE SubSeq(s, 1, Len(s) - 1)

(***************************************************************************)
(* deeptile/utils.py: index computation.                                   *)
(***************************************************************************)
\* overlap_size = np.rint(tile_size * overlap).astype(int)
calculate_overlap_size(tile_size, overlap) ==
    Rint(tile_size * overlap[1], overlap[2])

\* tiling = np.ceil((axis_size - overlap_size) / (tile_size - overlap_size)).astype(int)
\* The set of values the cast can produce.  With tile_size = overlap_size the
\* quotient is inf or nan (numpy divides without raising) and the cast to int
\* is undefined: builds yield INT_MIN, or saturate (+inf -> INT_MAX, nan -> 0).
calculate_tiling(axis_size, tile_size, overlap_size) ==
    IF tile_size # overlap_size
    THEN {Ceil(axis_size - overlap_size, tile_size - overlap_size)}
    ELSE IF axis_size > overlap_size THEN {IntMin, IntMax}
    ELSE IF axis_size = overlap_size THEN {IntMin, 0}
    ELSE {IntMin}

\* li = np.arange(tiling) * (tile_size - overlap_size)
LeftIndices(tiling, tile_size, overlap_size) ==
    LET a == Arange(tiling)
    IN  [k \in DOMAIN a |-> a[k] * (tile_size - overlap_size)]

\* ri = np.append(li[:-1] + tile_size, axis_size)
RightIndices(li, axis_size, tile_size) ==
    LET h == DropLast(li)
    IN  Append([k \in DOMAIN h |-> h[k] + tile_size], axis_size)

\* Border points placed half a tile, not half an overlap, past the tile start.
BorderIndices_tile_half(tiling, axis_size, tile_size, overlap_size) ==
    LET a == Arange1(tiling)
    IN  <<0>> \o [k \in DOMAIN a |->
                    a[k] * (tile_size - overlap_size) + Rint(tile_size, 2)]
              \o <<axis_size>>

\* border_indices = np.arange(1, tiling) * (tile_size - overlap_size) + round(0.5 * overlap_size)
\* border_indices = np.hstack([0, border_indices, axis_size])
BorderIndices(tiling, axis_size, tile_size, overlap_size) ==
    LET a == Arange1(tiling)
    IN  <<0>> \o [k \in DOMAIN a |->
                    a[k] * (tile_size - overlap_size) + Rint(overlap_size, 2)]
              \o <<axis_size>>

Failure(kind) ==
    [error |-> kind, tiling |-> 0, tile_indices |-> << >>, border_indices |-> << >>]

\* calculate_indices_1d for one outcome `tiling` of calculate_tiling.
\* np.arange of an INT_MAX length cannot be allocated; np.stack raises
\* ValueError when li and ri differ in length (tiling <= 0: li is empty, ri
\* holds axis_size).
Indices1dFor(tiling, axis_size, tile_size, overlap_size) ==
    IF tiling >= IntMax THEN {Failure("MemoryError"), Failure("ValueError")}
    ELSE
        LET li == LeftIndices(tiling, tile_size, overlap_size)
            ri == RightIndices(li, axis_size, tile_size)
        IN  IF Len(li) # Len(ri) THEN {Failure("ValueError")}
            ELSE {[error |-> "none",
                   tiling |-> tiling,
                   tile_indices |-> [k \in DOMAIN li |-> <<li[k], ri[k]>>],
                   border_indices |->
                       BorderIndices(tiling, axis_size, tile_size, overlap_size)]}

\* The set of outcomes of calculate_indices_1d(axis_size, tile_size, overlap).
calculate_indices_1d(axis_size, tile_size, overlap) ==
    LET overlap_size == calculate_overlap_size(tile_size, overlap)
    IN  UNION {Indices1dFor(t, axis_size, tile_size, overlap_size) :
                 t \in calculate_tiling(axis_size, tile_size, overlap_size)}

(***************************************************************************)
(* 2-D arrays.  An array is [shape |-> <<h, w>>, data |-> f] with f a        *)
(* function on Pixels(h, w), indexed from 0 as in the code.                 *)
(***************************************************************************)
None == [none |-> TRUE]

Pixels(h, w) == (0..(h - 1)) \X (0..(w - 1))

PixelsOf(a) == Pixels(a.shape[1], a.shape[2])

Zeros(h, w) ==
    [shape |-> <<h, w>>, data |-> [p \in Pixels(h, w) |-> 0]]

Min(a, b) == IF a < b THEN a ELSE b

Max(a, b) == IF a > b THEN a ELSE b

\* A Python slice bound x on an axis of length n: negative bounds count from
\* the end, and bounds are clipped to the axis.
SliceBound(x, n) ==
    IF x < 0 THEN Max(x + n, 0) ELSE Min(x, n)

\* The index range [lo, hi) a slice start:stop selects on an axis of length n.
SliceRange(start, stop, n) ==
    LET lo == SliceBound(start, n)
        hi == SliceBound(stop, n)
    IN  <<lo, Max(lo, hi)>>

\* ary[i[0]:i[1], j[0]:j[1]]
Crop(a, i, j) ==
    LET ri == SliceRange(i[1], i[2], a.shape[1])
        rj == SliceRange(j[1], j[2], a.shape[2])
        h == ri[2] - ri[1]
        w == rj[2] - rj[1]
    IN  [shape |-> <<h, w>>,
         data |-> [p \in Pixels(h, w) |-> a.data[<<p[1] + ri[1], p[2] + rj[1]>>]]]

\* ary.T
Transpose(a) ==
    [shape |-> <<a.shape[2], a.shape[1]>>,
     data |-> [p \in Pixels(a.shape[2], a.shape[1]) |-> a.data[<<p[2], p[1]>>]]]

\* Whether canvas[i[0]:i[1], j[0]:j[1]] = crop is a legal assignment: the
\* crop has the shape of the selected rectangle, or broadcasts to it (an
\* axis of length 1 is repeated).
PasteFits(canvas, i, j, crop) ==
    LET ri == SliceRange(i[1], i[2], canvas.shape[1])
        rj == SliceRange(j[1], j[2], canvas.shape[2])
    IN  /\ crop.shape[1] \in {ri[2] - ri[1], 1}
        /\ crop.shape[2] \in {rj[2] - rj[1], 1}

\* canvas[i[0]:i[1], j[0]:j[1]] = crop
Paste(canvas, i, j, crop) ==
    LET ri == SliceRange(i[1], i[2], canvas.shape[1])
        rj == SliceRange(j[1], j[2], canvas.shape[2])
    IN  [canvas EXCEPT !.data =
            [p \in PixelsOf(canvas) |->
                IF /\ ri[1] <= p[1] /\ p[1] < ri[2]
                   /\ rj[1] <= p[2] /\ p[2] < rj[2]
                THEN crop.data[<<IF crop.shape[1] = 1 THEN 0 ELSE p[1] - ri[1],
                                 IF crop.shape[2] = 1 THEN 0 ELSE p[2] - rj[1]>>]
                ELSE canvas.data[p]]]

\* The nonzero values of an array.
Labels(a) == {a.data[p] : p \in PixelsOf(a)} \ {0}

SetMax(S) == IF S = {} THEN 0 ELSE CHOOSE x \in S : \A y \in S : y <= x

SetMin(S) == CHOOSE x \in S : \A y \in S : x <= y

(***************************************************************************)
(* skimage.measure as the code uses it.                                    *)
(***************************************************************************)
\* Pixels that touch, diagonals included (label's default connectivity).
Adjacent(p, q) ==
    /\ p # q
    /\ p[1] - q[1] \in {-1, 0, 1}
    /\ p[2] - q[2] \in {-1, 0, 1}

RECURSIVE Grow(_, _)
\* The pixels of `cand` connected to the set S through pixels of `cand`.
Grow(S, cand) ==
    LET T == S \cup {q \in cand : \E s \in S : Adjacent(s, q)}
    IN  IF T = S THEN S ELSE Grow(T, cand)

\* Position of a pixel in a row-major scan of an array of width w.
Raster(p, w) == p[1] * w + p[2]

\* For every nonzero pixel, the raster position of the first pixel of its
\* connected component of equal value.
ComponentRoot(a) ==
    LET fg == {p \in PixelsOf(a) : a.data[p] # 0}
    IN  [p \in fg |->
            SetMin({Raster(q, a.shape[2]) :
                      q \in Grow({p}, {q \in fg : a.data[q] = a.data[p]})})]

\* A labelling that names each component by the scan position of its first
\* pixel, without compacting the names to 1..n.
MeasureLabel_uncompacted(a) ==
    LET root == ComponentRoot(a)
    IN  [a EXCEPT !.data =
            [p \in PixelsOf(a) |->
                IF a.data[p] = 0 THEN 0 ELSE root[p] + 1]]

\* measure.label(a): connected components of equal nonzero value, numbered
\* 1, 2, ... in the order a row-major scan meets them; 0 stays background.
MeasureLabel(a) ==
    LET root == ComponentRoot(a)
        roots == {root[p] : p \in DOMAIN root}
    IN  [a EXCEPT !.data =
            [p \in PixelsOf(a) |->
                IF a.data[p] = 0 THEN 0
                ELSE Cardinality({r \in roots : r <= root[p]})]]

\* measure.regionprops(mask): one region per label present, in increasing
\* label order; a region carries its bounding box (slice) and the label.
\* region.image is mask[slice] == label.
RegionOf(mask, label) ==
    LET px == {p \in PixelsOf(mask) : mask.data[p] = label}
        r0 == SetMin({p[1] : p \in px})
        r1 == SetMax({p[1] : p \in px}) + 1
        c0 == SetMin({p[2] : p \in px})
        c1 == SetMax({p[2] : p \in px}) + 1
    IN  [label |-> label, slice |-> <<(<<r0, r1>>), (<<c0, c1>>)>>, pixels |-> px]

RECURSIVE SortedSeq(_)
\* The elements of a set of integers in increasing order.
SortedSeq(S) ==
    IF S = {} THEN << >>
    ELSE LET m == SetMin(S) IN <<m>> \o SortedSeq(S \ {m})

RegionProps(mask) ==
    LET ls == SortedSeq(Labels(mask))
    IN  [k \in DOMAIN ls |-> RegionOf(mask, ls[k])]

(***************************************************************************)
(* deeptile/utils.py: 2-D indices, splitting, stitch indices.              *)
(***************************************************************************)
\* calculate_indices(image_shape, tile_size, overlap): the set of outcomes.
calculate_indices(image_shape, tile_size, overlap) ==
    {[error |-> IF v.error # "none" THEN v.error ELSE h.error,
      tiling |-> <<v.tiling, h.tiling>>,
      tile_indices |-> <<v.tile_indices, h.tile_indices>>,
      border_indices |-> <<v.border_indices, h.border_indices>>] :
        v \in calculate_indices_1d(image_shape[1], tile_size[1], overlap[1]),
        h \in calculate_indices_1d(image_shape[2], tile_size[2], overlap[2])}

\* Grid coordinates of a tiling, from 0.
Grid(n_blocks) == (0..(n_blocks[1] - 1)) \X (0..(n_blocks[2] - 1))

\* Grid coordinates in np.ndenumerate (row-major) order.
GridSeq(n_blocks) ==
    [k \in 1..(n_blocks[1] * n_blocks[2]) |->
        <<(k - 1) \div n_blocks[2], (k - 1) % n_blocks[2]>>]

\* A split that slices the rows by the column ranges and the columns by the
\* row ranges (the two axes swapped).
array_split_2d_swapped(ary, indices) ==
    [n \in Grid(<<Len(indices[1]), Len(indices[2])>>) |->
        Crop(ary, indices[2][n[2] + 1], indices[1][n[1] + 1])]

\* array_split_2d(ary, indices): one slice of ary per pair of tile ranges.
array_split_2d(ary, indices) ==
    [n \in Grid(<<Len(indices[1]), Len(indices[2])>>) |->
        Crop(ary, indices[1][n[1] + 1], indices[2][n[2] + 1])]

RECURSIVE SelectSeq2(_, _)
\* The elements of sequence s whose grid cell holds a tile, in order.
SelectSeq2(s, grid) ==
    IF s = << >> THEN << >>
    ELSE IF grid[Head(s)] # None
         THEN <<Head(s)>> \o SelectSeq2(Tail(s), grid)
         ELSE SelectSeq2(Tail(s), grid)

\* get_nonempty_indices(tiles): np.ndenumerate order.
get_nonempty_indices(grid, n_blocks) ==
    SelectSeq2(GridSeq(n_blocks), grid)

\* One entry of the stitch index map, for tile n = (n_i, n_j), with the
\* border pair of axis 1 taken at an offset (a slip the model can express).
StitchIndex_shifted(n, tile_indices, border_indices) ==
    LET i_image == <<border_indices[1][n[1] + 1], border_indices[1][n[1] + 2]>>
        j_image == <<border_indices[2][n[2] + 1] + (IF n[2] > 0 THEN 1 ELSE 0),
                     border_indices[2][n[2] + 2]>>
        i0 == tile_indices[1][n[1] + 1][1]
        j0 == tile_indices[2][n[2] + 1][1]
    IN  [index |-> n, i_image |-> i_image, j_image |-> j_image,
         i |-> <<i_image[1] - i0, i_image[2] - i0>>,
         j |-> <<j_image[1] - j0, j_image[2] - j0>>]

\* One entry of the stitch index map, for tile n = (n_i, n_j):
\*   i_image = border_indices[0][n_i:n_i + 2], i = i_image - tile_indices[0][n_i, 0]
StitchIndex(n, tile_indices, border_indices) ==
    LET i_image == <<border_indices[1][n[1] + 1], border_indices[1][n[1] + 2]>>
        j_image == <<border_indices[2][n[2] + 1], border_indices[2][n[2] + 2]>>
        i0 == tile_indices[1][n[1] + 1][1]
        j0 == tile_indices[2][n[2] + 1][1]
    IN  [index |-> n, i_image |-> i_image, j_image |-> j_image,
         i |-> <<i_image[1] - i0, i_image[2] - i0>>,
         j |-> <<j_image[1] - j0, j_image[2] - j0>>]

\* calculate_stitch_indices / DeepTile._calculate_stitch_indices: the entries
\* of the nonempty tiles, in dict (insertion) order.
calculate_stitch_indices(nonempty, tile_indices, border_indices) ==
    [k \in DOMAIN nonempty |-> StitchIndex(nonempty[k], tile_indices, border_indices)]

(***************************************************************************)
(* deeptile/deeptile.py: stitching.                                        *)
(***************************************************************************)
\* i[(0 < i_image) & (i_image < n)]: the local positions of the interior
\* clean borders of a tile along one axis of length n.
ClearLines(local, in_image, n) ==
    {local[k] : k \in {k \in 1..2 : 0 < in_image[k] /\ in_image[k] < n}}

\* utils.clear_border(mask, i_clear, j_clear).  The interior stitch pass is
\* documented as crop, relabel, offset, write: the mask reaches the crop as
\* it is.
clear_border(mask, i_clear, j_clear) == mask

\* mask_crop[mask_crop > 0] += total_count
AddOffset(a, total) ==
    [a EXCEPT !.data =
        [p \in PixelsOf(a) |-> IF a.data[p] > 0 THEN a.data[p] + total ELSE 0]]

Canvas(error, canvas, total) ==
    [error |-> error, stitched |-> canvas, total_count |-> total]

\* One iteration of the interior loop of _stitch_masks, for stitch index si
\* and the tile's mask.  max() of an empty crop raises ValueError, as does
\* writing a crop into a rectangle of another shape.
InteriorTile(canvas, total, si, mask_all) ==
    LET i_clear == ClearLines(si.i, si.i_image, canvas.shape[1])
        j_clear == ClearLines(si.j, si.j_image, canvas.shape[2])
        mask == clear_border(mask_all, i_clear, j_clear)
        mask_crop == MeasureLabel(Crop(mask, si.i, si.j))
    IN  IF mask_crop.shape[1] = 0 \/ mask_crop.shape[2] = 0
        THEN Canvas("ValueError", canvas, total)
        ELSE LET count == SetMax(Labels(mask_crop))
                 shifted == AddOffset(mask_crop, total)
             IN  IF PasteFits(canvas, si.i_image, si.j_image, shifted)
                 THEN Canvas("none",
                             Paste(canvas, si.i_image, si.j_image, shifted),
                             total + count)
                 ELSE Canvas("ValueError", canvas, total)

\* The scans of _find_border_cells in the order the loops make them: axis,
\* then n_i, then n_j, then the lower (side 0) and the upper (side 1) tile.
ScansOfAxis(n_blocks, axis) ==
    LET outer == n_blocks[axis + 1]
        inner == n_blocks[2 - axis] - 1
    IN  [k \in 1..(outer * inner * 2) |->
            [axis |-> axis,
             n_i |-> (k - 1) \div (2 * inner),
             n_j |-> ((k - 1) % (2 * inner)) \div 2,
             side |-> (k - 1) % 2]]

Scans(n_blocks) == ScansOfAxis(n_blocks, 0) \o ScansOfAxis(n_blocks, 1)

\* border_index = self.border_indices[1 - axis][n_j + 1] - j_image[0], with
\* j_image[0] the start of tile n_j + 1.
BorderIndex(s, t) ==
    s.border_indices[2 - t.axis][t.n_j + 2] - s.tile_indices[2 - t.axis][t.n_j + 2][1]

\* The width of the overlap strip a scan crops: j_image[1] - j_image[0], the
\* end of tile n_j minus the start of tile n_j + 1.
StripWidth(s, t) ==
    s.tile_indices[2 - t.axis][t.n_j + 1][2] - s.tile_indices[2 - t.axis][t.n_j + 2][1]

\* One scan: _scan_border on the tile at `side` of boundary n_j + 1.
\* mask[:, border_index] raises IndexError outside the strip.
ScanBorder(s, mm, t) ==
    LET a == t.axis + 1
        b == 2 - t.axis
        i0 == s.tile_indices[a][t.n_i + 1][1]
        i == <<s.border_indices[a][t.n_i + 1] - i0,
               s.border_indices[a][t.n_i + 2] - i0>>
        j_image == <<s.tile_indices[b][t.n_j + 2][1], s.tile_indices[b][t.n_j + 1][2]>>
        nb == t.n_j + t.side
        off == s.tile_indices[b][nb + 1][1]
        j == <<j_image[1] - off, j_image[2] - off>>
        border_index == BorderIndex(s, t)
        position == IF t.axis = 1 THEN <<nb, t.n_i>> ELSE <<t.n_i, nb>>
        mask_all == mm[position]
    IN  IF mask_all = None
        THEN [error |-> "none", position |-> position, cells |-> {}]
        ELSE LET m == IF t.axis = 1 THEN Transpose(mask_all) ELSE mask_all
                 strip == Crop(m, i, j)
                 h == strip.shape[1]
                 w == strip.shape[2]
                 col == IF border_index < 0 THEN border_index + w ELSE border_index
             IN  IF border_index >= w \/ border_index < -w
                 THEN [error |-> "IndexError", position |-> position, cells |-> {}]
                 ELSE [error |-> "none", position |-> position,
                       cells |-> {x \in {strip.data[<<r, col>>] : r \in 0..(h - 1)} :
                                    x > 0}]

\* all_border_cells after one scan found `cells` for `position`: the set of
\* an existing key grows in place, a new key is appended.
UpdateCells(d, position, cells) ==
    IF cells = {} THEN d
    ELSE IF \E k \in DOMAIN d : d[k].position = position
         THEN [k \in DOMAIN d |->
                 IF d[k].position = position
                 THEN [d[k] EXCEPT !.cells = @ \cup cells] ELSE d[k]]
         ELSE Append(d, [position |-> position, cells |-> cells])

RECURSIVE FoldScans(_, _, _, _)
FoldScans(s, mm, ts, d) ==
    IF ts = << >> THEN [error |-> "none", cells |-> d]
    ELSE LET r == ScanBorder(s, mm, Head(ts))
         IN  IF r.error # "none" THEN [error |-> r.error, cells |-> << >>]
             ELSE FoldScans(s, mm, Tail(ts), UpdateCells(d, r.position, r.cells))

\* _find_border_cells(masks, z)
find_border_cells(s, mm) ==
    FoldScans(s, mm, Scans(s.n_blocks), << >>)

RECURSIVE Candidates(_)
\* The (tile, cell) pairs the reconciliation loop visits, in its order: the
\* dict's insertion order, and within a tile the cells in increasing order
\* (the order a set of small integers iterates in).
Candidates(d) ==
    IF d = << >> THEN << >>
    ELSE LET cs == SortedSeq(Head(d).cells)
         IN  [k \in DOMAIN cs |-> [position |-> Head(d).position, cell |-> cs[k]]]
                 \o Candidates(Tail(d))

\* The region the loop picks for a collected cell id: regions[cell - 1].
\* Out of the list: IndexError (a region with label 0).
PickRegion(mask, cell) ==
    LET regions == RegionProps(mask)
    IN  IF cell - 1 < Len(regions) THEN regions[cell]
        ELSE [label |-> 0, slice |-> <<(<<0, 0>>), (<<0, 0>>)>>, pixels |-> {}]

\* The footprint of a region of tile n in image coordinates.
Footprint(s, n, region) ==
    {<<p[1] + s.tile_indices[1][n[1] + 1][1], p[2] + s.tile_indices[2][n[2] + 1][1]>> :
        p \in region.pixels}

\* An iteration that stamps every candidate, overlapping or not.
Stamp_always(canvas, total, s, mm, cand) ==
    LET region == PickRegion(mm[cand.position], cand.cell)
        fp == Footprint(s, cand.position, region)
    IN  IF region.label = 0 THEN Canvas("IndexError", canvas, total)
        ELSE Canvas("none",
                    [canvas EXCEPT !.data =
                        [q \in PixelsOf(canvas) |->
                            IF q \in fp THEN total + 1 ELSE canvas.data[q]]],
                    total + 1)

\* One iteration of the reconciliation loop of _stitch_masks.
Stamp(canvas, total, s, mm, cand) ==
    LET region == PickRegion(mm[cand.position], cand.cell)
        fp == Footprint(s, cand.position, region)
    IN  IF region.label = 0 THEN Canvas("IndexError", canvas, total)
        ELSE IF \E q \in fp : canvas.data[q] > 0
             THEN Canvas("none", canvas, total)
             ELSE Canvas("none",
                         [canvas EXCEPT !.data =
                             [q \in PixelsOf(canvas) |->
                                 IF q \in fp THEN total + 1 ELSE canvas.data[q]]],
                         total + 1)

\* A final pass that labels the foreground as a binary image.
FinalRelabel_binary(a) ==
    MeasureLabel([a EXCEPT !.data =
                     [p \in PixelsOf(a) |-> IF a.data[p] > 0 THEN 1 ELSE 0]])

\* stitched_mask[z] = measure.label(stitched_mask[z])
FinalRelabel(a) == MeasureLabel(a)

RECURSIVE StitchNd2From(_, _, _)
\* The loop of _stitch_nd2 over the stitch index map, from entry k on.
StitchNd2From(canvas, s, k) ==
    IF k > Len(s.stitch_indices) THEN [error |-> "none", stitched |-> canvas]
    ELSE LET si == s.stitch_indices[k]
             tile_crop == Crop(tiles[si.index], si.i, si.j)
         IN  IF PasteFits(canvas, si.i_image, si.j_image, tile_crop)
             THEN StitchNd2From(Paste(canvas, si.i_image, si.j_image, tile_crop),
                                s, k + 1)
             ELSE [error |-> "ValueError", stitched |-> canvas]

(***************************************************************************)
(* deeptile/core/process.py: applying a user function tile by tile.        *)
(*                                                                         *)
(* A tree is a record [istree, leaves]: a bare leaf has istree = FALSE and *)
(* one leaf, a container has istree = TRUE and its leaves in order.  A     *)
(* leaf a user function returns is an array [of, part] (part `part` of the *)
(* result for tile `of`), bare or in an Output wrapper; a leaf of the      *)
(* processed tiles is a Tiled grid [tiles, job].                           *)
(***************************************************************************)
\* trees.tree_scan(tree): whether the value is a container, and the index
\* of every leaf.
tree_scan(tree) ==
    [istree |-> tree.istree,
     indices |-> IF tree.istree THEN [k \in DOMAIN tree.leaves |-> <<k - 1>>]
                 ELSE << << >> >>]

\* trees.tree_index(tree, index): the leaf at a leaf index.
tree_index(tree, index) ==
    IF index = << >> THEN tree.leaves[1] ELSE tree.leaves[index[1] + 1]

\* Tiled(np.empty(tiling, dtype=object), job): a grid of None cells that
\* refers to its job.
Tiled(tiling, job) ==
    [tiles |-> [n \in Grid(tiling) |-> None], job |-> job]

\* Output(output, **metadata): the annotation a user function may wrap a
\* result in.
Output(output) == [output |-> output, metadata |-> "stackable"]

\* The user function, by the shape of what it returns for a tile x: one
\* array, one array in an Output wrapper, or a pair of arrays.
Func(func, x) ==
    CASE func = "leaf" ->
           [istree |-> FALSE, leaves |-> <<[of |-> x, part |-> 0]>>]
      [] func = "wrapped" ->
           [istree |-> FALSE, leaves |-> <<Output([of |-> x, part |-> 0])>>]
      [] func = "pair" ->
           [istree |-> TRUE,
            leaves |-> <<[of |-> x, part |-> 0], Output([of |-> x, part |-> 1])>>]

\* create_batch(tiles, ...) for the index of one tile: len(batch_indices)
\* == 2, so the batch is tiles[batch_indices], the tile itself.
create_batch(ts, batch_indices) == ts[batch_indices]

\* get_arguments(False, 1, args, kwargs, arg_indices, kwarg_indices, index):
\* the Tiled argument replaced by the tile at index.
get_arguments(args, batch_indices) == create_batch(args, batch_indices)

\* initialize_tiles(processed_tile, job, tiling)
initialize_tiles(processed_tile, job, tiling) == Tiled(tiling, job)

\* initialize_tree(...): on the first result only, scan its shape and make
\* one empty Tiled grid per leaf.
initialize_tree(processed_tile, job, tiling, p) ==
    IF p.processed_istree = "None"
    THEN [p EXCEPT
            !.processed_istree = IF tree_scan(processed_tile).istree
                                 THEN "True" ELSE "False",
            !.processed_indices = tree_scan(processed_tile).indices,
            !.processed_tiles =
                [istree |-> processed_tile.istree,
                 leaves |-> [k \in DOMAIN processed_tile.leaves |->
                               initialize_tiles(processed_tile.leaves[k], job, tiling)]]]
    ELSE p

\* strip_output_wrapper(processed_tile)
strip_output_wrapper(processed_tile) ==
    IF "output" \in DOMAIN processed_tile THEN processed_tile.output
    ELSE processed_tile

\* An update that assigns through the first coordinate only, so that the
\* whole grid row receives the tile.
update_tiles_row(processed_tiles, processed_tile, index, batch_axis) ==
    [processed_tiles EXCEPT !.tiles =
        [n \in DOMAIN processed_tiles.tiles |->
            IF n[1] = index[1] THEN processed_tile ELSE processed_tiles.tiles[n]]]

\* An update under a batch axis that puts the new result in front of the
\* ones the cell already holds.
update_tiles_prepend(processed_tiles, processed_tile, index, batch_axis) ==
    LET current_tile == processed_tiles.tiles[index]
    IN  [processed_tiles EXCEPT !.tiles[index] =
            IF batch_axis
            THEN IF current_tile = None
                 THEN [stack |-> <<processed_tile>>]
                 ELSE [stack |-> <<processed_tile>> \o current_tile.stack]
            ELSE processed_tile]

\* update_tiles(processed_tiles, processed_tile, index, batch_axis): with a
\* batch axis the tile is appended to the cell's stack (a None cell starts
\* a stack of one), without it the cell is overwritten.
update_tiles(processed_tiles, processed_tile, index, batch_axis) ==
    LET current_tile == processed_tiles.tiles[index]
    IN  [processed_tiles EXCEPT !.tiles[index] =
            IF batch_axis
            THEN IF current_tile = None
                 THEN [stack |-> <<processed_tile>>]
                 ELSE [stack |-> Append(current_tile.stack, processed_tile)]
            ELSE processed_tile]

\* utils.update_tiles(tiles, index, tile, batch_axis, output_type), on a
\* grid of cells.  batch_axis is None or [axis |-> a]; an array built along
\* an axis is [axis, stack].  A 'tiled_image' cell is overwritten without a
\* batch axis; with one, the tile gets a new axis at batch_axis
\* (np.expand_dims) and is concatenated along it to an ndarray cell.  A
\* 'tiled_coords' cell is a 1-d object array the tile is appended to.
utils_update_tiles(ts, index, tile, batch_axis, output_type) ==
    LET current_tile == ts[index]
        axis == IF output_type = "tiled_image" THEN batch_axis.axis ELSE 0
    IN  IF output_type = "tiled_image" /\ batch_axis = None
        THEN [ts EXCEPT ![index] = tile]
        ELSE IF current_tile # None
             THEN [ts EXCEPT ![index] =
                      [axis |-> axis, stack |-> Append(current_tile.stack, tile)]]
             ELSE [ts EXCEPT ![index] = [axis |-> axis, stack |-> <<tile>>]]

\* process_single(func, batch_axis, args, ..., index): one call of func on
\* the tile at index, and the scatter of every leaf of its result.
process_single(p, index) ==
    LET single_args == get_arguments(p.args, index)
        processed_tile == Func(p.func, single_args)
        q == initialize_tree(processed_tile, p.job, p.tiling, p)
        stripped == [k \in DOMAIN processed_tile.leaves |->
                       strip_output_wrapper(processed_tile.leaves[k])]
    IN  [q EXCEPT
            !.calls = Append(@, [index |-> index, args |-> single_args]),
            !.processed_tiles.leaves =
                [k \in DOMAIN q.processed_indices |->
                    update_tiles(tree_index(q.processed_tiles, q.processed_indices[k]),
                                 stripped[k], index, p.batch_axis)]]

(***************************************************************************)
(* deeptile/core/process.py: applying a user function batch by batch.      *)
(*                                                                         *)
(* A TileArray given to a call is a record [tiles, profile, mask,          *)
(* stackable]: profile is its Profile object [id, tiling], id standing     *)
(* for the object's identity, mask the set of grid coordinates that hold   *)
(* a tile.  A tile is a record [tile, shape0] with shape0 the length of    *)
(* its first axis; a cell filled under a batch axis is [stack |-> <<...>>].*)
(* A batch is a record [error, kind, entries]; a result leaf of a          *)
(* vectorized function is [slices |-> <<...>>] with one slice per entry    *)
(* it was given.                                                           *)
(***************************************************************************)
\* A check that compares profiles by their content instead of by identity.
check_compatability_structural(ts_list) ==
    IF Len(ts_list) = 0 THEN "ValueError: no tiles are given."
    ELSE LET BadProfile(k) == ts_list[k].profile.tiling # ts_list[1].profile.tiling
             BadMask(k) == ts_list[k].mask # ts_list[1].mask
             bad == {k \in DOMAIN ts_list : BadProfile(k) \/ BadMask(k)}
         IN  IF bad = {} THEN "none"
             ELSE IF BadProfile(SetMin(bad))
                  THEN "ValueError: tiles must all share a common profile."
                  ELSE "ValueError: tiles must all share a common mask."

\* check_compatability(tiles): "none" when the check passes, else the
\* ValueError it raises.  The inputs are visited in order; an input is
\* compared with the first one by the identity of its profile (`is not`),
\* then by its mask.
check_compatability(ts_list) ==
    IF Len(ts_list) = 0 THEN "ValueError: no tiles are given."
    ELSE LET BadProfile(k) == ts_list[k].profile.id # ts_list[1].profile.id
             BadMask(k) == ts_list[k].mask # ts_list[1].mask
             bad == {k \in DOMAIN ts_list : BadProfile(k) \/ BadMask(k)}
         IN  IF bad = {} THEN "none"
             ELSE IF BadProfile(SetMin(bad))
                  THEN "ValueError: tiles must all share a common profile."
                  ELSE "ValueError: tiles must all share a common mask."

\* The all-zero entry np.pad appends to a stack of tiles of a shape.
ZeroTile(shape0) == [tile |-> 0, shape0 |-> shape0]

\* utils.array_pad(ary, padding, axis=0): np.pad with pad_width (0, padding)
\* on the leading axis; np.pad rejects a negative width.
array_pad(ary, padding) ==
    IF padding < 0
    THEN [error |-> "ValueError", entries |-> ary]
    ELSE [error |-> "none",
          entries |-> ary \o [k \in 1..padding |-> ZeroTile(ary[1].shape0)]]

\* utils.cast_list_to_array(lst): an object array whose row i holds the
\* rows of the i-th item.
cast_list_to_array(lst) == [k \in DOMAIN lst |-> [rows |-> lst[k]]]

\* create_batch(tiles, batch_indices, pad_final_batch, batch_size) for the
\* indices of a batch, given as the sequence zip(*batch_indices).  Pairs
\* select tiles[batch_indices]; stackable tiles are stacked by np.stack
\* (which needs equal shapes) and padded when pad_final_batch is set and
\* batch_tiles[0].shape[0] < batch_size, by batch_size - batch_tiles.shape[0]
\* entries.  Triples gather tiles[r, c][k] into an object array, which is
\* neither a list nor a Tiled and so is returned as it is.
create_batch_vectorized(ts, batch_indices, pad_final_batch, batch_size) ==
    IF Len(batch_indices[1]) = 2
    THEN LET batch_tiles == [k \in DOMAIN batch_indices |-> ts.tiles[batch_indices[k]]]
         IN  IF ts.stackable
             THEN IF \E k \in DOMAIN batch_tiles :
                        batch_tiles[k].shape0 # batch_tiles[1].shape0
                  THEN [error |-> "ValueError", kind |-> "stacked",
                        entries |-> batch_tiles]
                  ELSE IF pad_final_batch /\ batch_tiles[1].shape0 < batch_size
                       THEN LET padded == array_pad(batch_tiles,
                                                    batch_size - Len(batch_tiles))
                            IN  [error |-> padded.error, kind |-> "stacked",
                                 entries |-> padded.entries]
                       ELSE [error |-> "none", kind |-> "stacked",
                             entries |-> batch_tiles]
             ELSE [error |-> "none", kind |-> "tiled", entries |-> batch_tiles]
    ELSE [error |-> "none", kind |-> "object_array",
          entries |-> cast_list_to_array(
              [k \in DOMAIN batch_indices |->
                  ts.tiles[SubSeq(batch_indices[k], 1, 2)].stack[batch_indices[k][3] + 1]])]

\* get_arguments(pad_final_batch, batch_size, args, ..., batch_indices):
\* every Tiled argument replaced by its batch.
get_arguments_vectorized(pad_final_batch, batch_size, args, batch_indices) ==
    [a \in DOMAIN args |->
        create_batch_vectorized(args[a], batch_indices, pad_final_batch, batch_size)]

\* The user function in vectorized mode, by the shape of what it returns
\* for a batch and by how it deviates: it may raise, return one slice less
\* than it was given entries, or return a container with a leaf more or a
\* leaf less than a pair.
FuncVectorized(func, deviation, batch) ==
    LET n == Len(batch.entries)
        m == IF deviation = "short" THEN n - 1 ELSE n
        Leaf(part) ==
            [slices |-> [k \in 1..m |-> [of |-> batch.entries[k], part |-> part]]]
    IN  IF deviation = "raises"
        THEN [raised |-> TRUE, istree |-> FALSE, leaves |-> << >>]
        ELSE [raised |-> FALSE,
              istree |-> func = "pair",
              leaves |->
                 CASE func = "leaf" -> <<Leaf(0)>>
                   [] func = "wrapped" -> <<Output(Leaf(0))>>
                   [] func = "pair" /\ deviation = "extra_leaf" ->
                        <<Leaf(0), Output(Leaf(1)), Leaf(2)>>
                   [] func = "pair" /\ deviation = "missing_leaf" -> <<Leaf(0)>>
                   [] OTHER -> <<Leaf(0), Output(Leaf(1))>>]

\* Whether a tree has a leaf at a leaf index.
HasIndex(tree, index) ==
    IF index = << >> THEN ~tree.istree
    ELSE tree.istree /\ index[1] + 1 <= Len(tree.leaves)

\* Data.__new__(cls, data, job, otype, allowed_otypes), the part that links
\* a job to its output: with link_data the job's output becomes the new
\* object, without it the job is left alone.  `assigned` counts the
\* assignments to job.output.
Data(data, job, link_data) ==
    IF link_data
    THEN [job EXCEPT !.output = [data |-> data], !.assigned = @ + 1]
    ELSE job

\* Job.__init__(self, job_input, job_type, job_kwargs): job_kwargs is
\* rebound to what job_kwargs.pop('self') returns, the value stored under
\* 'self' (a KeyError if there is none), and that is recorded as kwargs.
\* The input is kept only with link_data; output starts as None.
Job(job_input, job_type, job_kwargs, link_data, id) ==
    IF "self" \notin DOMAIN job_kwargs
    THEN [error |-> "KeyError", input |-> None, id |-> 0, type |-> "",
          kwargs |-> None, output |-> None, assigned |-> 0]
    ELSE [error |-> "none",
          input |-> IF link_data THEN [data |-> job_input] ELSE None,
          id |-> id, type |-> job_type, kwargs |-> job_kwargs["self"],
          output |-> None, assigned |-> 0]

RECURSIVE LinkOutputs(_, _, _, _)
\* The Tiled objects initialize_tiles creates for leaves k.. of the output
\* tree, in order, each created under the call's job.
LinkOutputs(job, n_leaves, k, link_data) ==
    IF k > n_leaves THEN job
    ELSE LinkOutputs(Data(k, job, link_data), n_leaves, k + 1, link_data)

RECURSIVE ScatterFrom(_, _, _, _)
\* process_vectorized, the loop over enumerate(zip(*batch_indices)) from
\* item i_batch on: slice i_batch of every leaf is taken (an IndexError if
\* a leaf has no such slice), then written to the leaf's grid at index[:2].
ScatterFrom(p, stripped, batch_indices, i_batch) ==
    IF i_batch > Len(batch_indices) THEN p
    ELSE IF \E k \in DOMAIN stripped : i_batch > Len(stripped[k].slices)
         THEN [p EXCEPT !.error = "IndexError"]
         ELSE LET index == SubSeq(batch_indices[i_batch], 1, 2)
              IN  ScatterFrom(
                      [p EXCEPT
                         !.processed_tiles.leaves =
                             [k \in DOMAIN p.processed_indices |->
                                 update_tiles(
                                     tree_index(p.processed_tiles, p.processed_indices[k]),
                                     stripped[k].slices[i_batch], index, p.batch_axis)],
                         !.writes = @ \o [k \in DOMAIN p.processed_indices |->
                                            [leaf |-> k, index |-> index]]],
                      stripped, batch_indices, i_batch + 1)

\* process_vectorized(func, batch_axis, pad_final_batch, batch_size, args,
\* ..., batch_indices): one call of func on a batch and the scatter of its
\* result.  A failure leaves the state it was raised in, with the error.
process_vectorized(p, batch_indices) ==
    LET batch_args == get_arguments_vectorized(p.pad_final_batch, p.batch_size,
                                               p.args, batch_indices)
        deviation == IF Len(p.calls) + 1 >= p.deviates_from
                     THEN p.deviation ELSE "none"
        processed_batch_tiles == FuncVectorized(p.func, deviation, batch_args[1])
        called == [p EXCEPT !.calls =
                      Append(@, [indices |-> batch_indices,
                                 args |-> batch_args[1],
                                 raised |-> processed_batch_tiles.raised,
                                 istree |-> processed_batch_tiles.istree,
                                 n_leaves |-> Len(processed_batch_tiles.leaves)])]
        initialized == initialize_tree(processed_batch_tiles, p.job.id, p.tiling, called)
        q == IF p.processed_istree = "None"
             THEN [initialized EXCEPT !.job =
                      LinkOutputs(@, Len(processed_batch_tiles.leaves), 1, p.link_data)]
             ELSE initialized
    IN  IF \E a \in DOMAIN batch_args : batch_args[a].error # "none"
        THEN [p EXCEPT !.error = "ValueError"]
        ELSE IF processed_batch_tiles.raised
        THEN [called EXCEPT !.error = "UserError"]
        ELSE IF \E k \in DOMAIN q.processed_indices :
                   ~HasIndex(processed_batch_tiles, q.processed_indices[k])
        THEN [q EXCEPT !.error = "IndexError"]
        ELSE ScatterFrom(q,
                 [k \in DOMAIN q.processed_indices |->
                     strip_output_wrapper(
                         tree_index(processed_batch_tiles, q.processed_indices[k]))],
                 batch_indices, 1)

(***************************************************************************)
(* The DeepTile object's operations as actions.                            *)
(***************************************************************************)
NoMasks == << >>

NoArray == Zeros(0, 0)

RECURSIVE SubsetsUpTo(_, _)
\* The subsets of S of at most k elements.
SubsetsUpTo(S, k) ==
    IF k = 0 THEN {{}}
    ELSE LET smaller == SubsetsUpTo(S, k - 1)
         IN  smaller \cup {T \cup {x} : T \in smaller, x \in S}

\* DeepTile.get_tiles.  The indices come from utils.calculate_indices; an
\* array image is split by array_split_2d, a tile source may leave up to
\* MaxMissing grid cells without a tile (None), never all of them.
GetTiles ==
    /\ pc = "configured"
    /\ \E g \in calculate_indices(self.image.shape, self.tile_size, self.overlap) :
         IF g.error # "none"
         THEN /\ pc' = "error"
              /\ UNCHANGED <<self, tiles>>
         ELSE \E missing \in SubsetsUpTo(Grid(g.tiling), MaxMissing) :
                /\ missing # Grid(g.tiling)
                /\ self' = [self EXCEPT !.n_blocks = g.tiling,
                                        !.tile_indices = g.tile_indices,
                                        !.border_indices = g.border_indices]
                /\ tiles' = [n \in Grid(g.tiling) |->
                               IF n \in missing THEN None
                               ELSE array_split_2d(self.image, g.tile_indices)[n]]
                /\ pc' = "tiled"
    /\ UNCHANGED <<proc, call, ret, masks, stitched, total_count, border_cells, cursor>>

\* DeepTile._segment_image with a backend that returns, for every tile, the
\* labels the tile itself holds (a ground-truth label image cut into tiles).
SegmentExact ==
    /\ pc = "tiled"
    /\ masks' = tiles
    /\ pc' = "segmented"
    /\ UNCHANGED <<proc, call, ret, self, tiles, stitched, total_count, border_cells, cursor>>

\* DeepTile._segment_image: the backend is opaque, each tile gets some label
\* mask of the tile's shape (at most MaxFg labelled pixels over all tiles,
\* labels up to MaxLabel); None tiles get None.
SegmentAny ==
    /\ pc = "tiled"
    /\ LET present == {n \in DOMAIN tiles : tiles[n] # None}
           tp == UNION {{<<n, p>> : p \in PixelsOf(tiles[n])} : n \in present}
       IN  \E F \in SubsetsUpTo(tp, MaxFg) :
             \E lab \in [F -> 1..MaxLabel] :
               masks' = [n \in DOMAIN tiles |->
                           IF tiles[n] = None THEN None
                           ELSE [shape |-> tiles[n].shape,
                                 data |-> [p \in PixelsOf(tiles[n]) |->
                                             IF <<n, p>> \in F THEN lab[<<n, p>>]
                                             ELSE 0]]]
    /\ pc' = "segmented"
    /\ UNCHANGED <<proc, call, ret, self, tiles, stitched, total_count, border_cells, cursor>>

\* DeepTile._calculate_stitch_indices(tiles), called by segment_image after
\* segmentation and by stitch_nd2 right after get_tiles.
CalculateStitchIndices ==
    /\ pc \in {"tiled", "segmented"}
    /\ self' = [self EXCEPT !.stitch_indices =
                   calculate_stitch_indices(get_nonempty_indices(tiles, self.n_blocks),
                                            self.tile_indices, self.border_indices)]
    /\ pc' = IF pc = "tiled" THEN "indexed" ELSE "interior"
    /\ cursor' = 1
    /\ UNCHANGED <<proc, call, ret, tiles, masks, stitched, total_count, border_cells>>

\* DeepTile._stitch_nd2(tiles)
StitchNd2 ==
    /\ pc = "indexed"
    /\ LET r == StitchNd2From(Zeros(self.image.shape[1], self.image.shape[2]), self, 1)
       IN  /\ stitched' = r.stitched
           /\ pc' = IF r.error = "none" THEN "stitched_nd2" ELSE "error"
    /\ UNCHANGED <<proc, call, ret, self, tiles, masks, total_count, border_cells, cursor>>

\* _stitch_masks, interior pass: one iteration per entry of stitch_indices.
\* The first iteration starts from the zero canvas and a zero counter.
StitchInterior ==
    /\ pc = "interior"
    /\ cursor <= Len(self.stitch_indices)
    /\ LET si == self.stitch_indices[cursor]
           canvas == IF cursor = 1
                     THEN Zeros(self.image.shape[1], self.image.shape[2])
                     ELSE stitched
           total == IF cursor = 1 THEN 0 ELSE total_count
           r == InteriorTile(canvas, total, si, masks[si.index])
       IN  /\ stitched' = r.stitched
           /\ total_count' = r.total_count
           /\ pc' = IF r.error # "none" THEN "error"
                    ELSE IF cursor = Len(self.stitch_indices) THEN "border"
                    ELSE "interior"
    /\ cursor' = cursor + 1
    /\ UNCHANGED <<proc, call, ret, self, tiles, masks, border_cells>>

\* _stitch_masks: border_cells = self._find_border_cells(masks, z)
FindBorderCells ==
    /\ pc = "border"
    /\ LET r == find_border_cells(self, masks)
       IN  /\ border_cells' = r.cells
           /\ pc' = IF r.error = "none" THEN "stamp" ELSE "error"
    /\ cursor' = 1
    /\ UNCHANGED <<proc, call, ret, self, tiles, masks, stitched, total_count>>

\* _stitch_masks, reconciliation pass: one iteration per collected cell.
StampCell ==
    /\ pc = "stamp"
    /\ cursor <= Len(Candidates(border_cells))
    /\ LET r == Stamp(stitched, total_count, self, masks,
                      Candidates(border_cells)[cursor])
       IN  /\ stitched' = r.stitched
           /\ total_count' = r.total_count
           /\ pc' = IF r.error = "none" THEN "stamp" ELSE "error"
    /\ cursor' = cursor + 1
    /\ UNCHANGED <<proc, call, ret, self, tiles, masks, border_cells>>

\* _stitch_masks: the final relabel of the slice, and the return.
Relabel ==
    /\ pc = "stamp"
    /\ cursor > Len(Candidates(border_cells))
    /\ stitched' = FinalRelabel(stitched)
    /\ pc' = "done"
    /\ UNCHANGED <<proc, call, ret, self, tiles, masks, total_count, border_cells, cursor>>

(***************************************************************************)
(* Processing in single mode: one call of process_single per nonempty      *)
(* grid coordinate, in the order of the nonempty index list.               *)
(***************************************************************************)
ProcessSingle ==
    /\ pc = "processing"
    /\ proc.queue # << >>
    /\ proc' = [process_single(proc, Head(proc.queue)) EXCEPT !.queue = Tail(proc.queue)]
    /\ UNCHANGED <<call, ret, self, tiles, masks, stitched, total_count,
                   border_cells, cursor, pc>>

ProcessReturn ==
    /\ pc = "processing"
    /\ proc.queue = << >>
    /\ pc' = "processed"
    /\ UNCHANGED <<proc, call, ret, self, tiles, masks, stitched, total_count,
                   border_cells, cursor>>

(***************************************************************************)
(* Processing in vectorized mode: the inputs are checked, the call's job   *)
(* is created, then process_vectorized runs once per batch of nonempty     *)
(* grid coordinates, in order.                                             *)
(***************************************************************************)
CheckCompatability ==
    /\ pc = "checking"
    /\ proc' = [proc EXCEPT !.error = check_compatability(proc.args)]
    /\ pc' = IF check_compatability(proc.args) = "none" THEN "compatible" ELSE "error"
    /\ UNCHANGED <<call, ret, self, tiles, masks, stitched, total_count,
                   border_cells, cursor>>

CreateJob ==
    /\ pc = "compatible"
    /\ proc' = [proc EXCEPT !.job = Job(proc.args[1], "process", proc.job_kwargs,
                                        proc.link_data, 1)]
    /\ pc' = "processing"
    /\ UNCHANGED <<call, ret, self, tiles, masks, stitched, total_count,
                   border_cells, cursor>>

ProcessVectorized ==
    /\ pc = "processing"
    /\ proc.queue # << >>
    /\ LET r == process_vectorized(proc, Head(proc.queue))
       IN  /\ proc' = [r EXCEPT !.queue = Tail(proc.queue),
                                !.before = proc.processed_tiles]
           /\ pc' = IF r.error = "none" THEN "processing" ELSE "error"
    /\ UNCHANGED <<call, ret, self, tiles, masks, stitched, total_count,
                   border_cells, cursor>>

(***************************************************************************)
(* Scatters of results into one output grid, by process.update_tiles or by *)
(* utils.update_tiles.                                                     *)
(***************************************************************************)
ScatterProcess ==
    /\ pc = "scatter"
    /\ proc.module = "process"
    /\ Len(proc.log) < MaxScatters
    /\ \E index \in Grid(proc.tiling), tile \in 1..MaxPayload :
         proc' = [proc EXCEPT
                    !.processed_tiles =
                        update_tiles(@, [tile |-> tile], index, proc.batch_axis),
                    !.log = Append(@, [index |-> index, tile |-> [tile |-> tile]])]
    /\ UNCHANGED <<call, ret, self, tiles, masks, stitched, total_count,
                   border_cells, cursor, pc>>

ScatterUtils ==
    /\ pc = "scatter"
    /\ proc.module = "utils"
    /\ Len(proc.log) < MaxScatters
    /\ \E index \in Grid(proc.tiling), tile \in 1..MaxPayload :
         proc' = [proc EXCEPT
                    !.processed_tiles.tiles =
                        utils_update_tiles(@, index, [tile |-> tile], proc.batch_axis,
                                           proc.output_type),
                    !.log = Append(@, [index |-> index, tile |-> [tile |-> tile]])]
    /\ UNCHANGED <<call, ret, self, tiles, masks, stitched, total_count,
                   border_cells, cursor, pc>>

(***************************************************************************)
(* Specifications.                                                         *)
(***************************************************************************)
\* Overlap fractions num/den in [0, 1) with den <= d.
OverlapsUpTo(d) ==
    {<<0, 1>>} \cup {o \in (1..d) \X (2..d) : o[1] < o[2]}

Overlaps == OverlapsUpTo(MaxDen)

\* The configuration worked through in the documentation: 100 px, tile 60, 10%.
ExampleCall ==
    [axis_size |-> 100, tile_size |-> 60, overlap |-> <<1, 10>>]

NoRet == [error |-> "pending", tiling |-> 0, tile_indices |-> << >>,
          border_indices |-> << >>]

\* Ground-truth label images: every pixel its own object, numbered in scan
\* order; one object covering the image; objects on a checkerboard with
\* background between them.
RasterImage(h, w) ==
    [shape |-> <<h, w>>, data |-> [p \in Pixels(h, w) |-> Raster(p, w) + 1]]

OneObjectImage(h, w) ==
    [shape |-> <<h, w>>, data |-> [p \in Pixels(h, w) |-> 1]]

CheckerImage(h, w) ==
    MeasureLabel([shape |-> <<h, w>>,
                  data |-> [p \in Pixels(h, w) |-> (p[1] + p[2] + 1) % 2]])

GroundTruthImages(h, w) ==
    {RasterImage(h, w), OneObjectImage(h, w), CheckerImage(h, w)}

NewDeepTile(image, tile_size, overlap) ==
    [image |-> image, tile_size |-> tile_size, overlap |-> overlap,
     n_blocks |-> <<0, 0>>, tile_indices |-> << >>, border_indices |-> << >>,
     stitch_indices |-> << >>]

NoDeepTile == NewDeepTile(NoArray, <<1, 1>>, <<(<<0, 1>>), (<<0, 1>>)>>)

DeepTileIdle ==
    /\ self = NoDeepTile
    /\ tiles = << >>
    /\ masks = NoMasks
    /\ stitched = NoArray
    /\ total_count = 0
    /\ border_cells = << >>
    /\ cursor = 0

\* The state of a processing call on the tiles `args` of a grid.
NewProcess(func, batch_axis, tiling, args) ==
    [func |-> func, batch_axis |-> batch_axis, tiling |-> tiling, args |-> args,
     job |-> 1, queue |-> get_nonempty_indices(args, tiling),
     processed_istree |-> "None", processed_indices |-> << >>,
     processed_tiles |-> [istree |-> FALSE, leaves |-> << >>],
     calls |-> << >>]

NoProcess == NewProcess("leaf", FALSE, <<0, 0>>, << >>)

\* A DeepTile object after construction and configuration, before any tiles
\* are cut.
DeepTileConfigured(images, rows, cols, tile, den) ==
    /\ \E h \in 1..rows, w \in 1..cols :
         \E image \in images[<<h, w>>] :
           \E tile_size \in (1..tile) \X (1..tile) :
             \E overlap \in OverlapsUpTo(den) \X OverlapsUpTo(den) :
               self = NewDeepTile(image, tile_size, overlap)
    /\ tiles = << >>
    /\ masks = NoMasks
    /\ stitched = NoArray
    /\ total_count = 0
    /\ border_cells = << >>
    /\ cursor = 0
    /\ pc = "configured"
    /\ proc = NoProcess

\* SpecIdx: one call of calculate_indices_1d.
InitIdx ==
    /\ call \in [axis_size : 1..MaxAxis, tile_size : 1..MaxTile, overlap : Overlaps]
                    \cup {ExampleCall}
    /\ ret = NoRet
    /\ DeepTileIdle
    /\ pc = "idle"
    /\ proc = NoProcess

CalculateIndices1d ==
    /\ ret = NoRet
    /\ pc = "idle"
    /\ ret' \in calculate_indices_1d(call.axis_size, call.tile_size, call.overlap)
    /\ UNCHANGED <<proc, call, self, tiles, masks, stitched, total_count, border_cells,
                   cursor, pc>>

NextIdx == CalculateIndices1d

SpecIdx == InitIdx /\ [][NextIdx]_vars

\* SpecGeom: a ground-truth label image is tiled under every bounded
\* geometry, then stitched back by stitch_nd2 or by the interior pass of
\* segment_image.
InitGeom ==
    /\ call = ExampleCall
    /\ ret = NoRet
    /\ DeepTileConfigured([s \in (1..MaxGeomRows) \X (1..MaxGeomCols) |->
                             GroundTruthImages(s[1], s[2])],
                          MaxGeomRows, MaxGeomCols, MaxGeomTile, MaxGeomDen)

NextGeom ==
    \/ GetTiles
    \/ CalculateStitchIndices
    \/ StitchNd2
    \/ SegmentExact
    \/ StitchInterior

SpecGeom == InitGeom /\ [][NextGeom]_vars

\* SpecStitch: segment_image on every bounded geometry with every bounded
\* choice of masks.
InitStitch ==
    /\ call = ExampleCall
    /\ ret = NoRet
    /\ DeepTileConfigured([s \in (1..MaxRows) \X (1..MaxCols) |->
                             {Zeros(s[1], s[2])}],
                          MaxRows, MaxCols, MaxTile2, MaxDen2)

NextStitch ==
    \/ GetTiles
    \/ SegmentAny
    \/ CalculateStitchIndices
    \/ StitchInterior
    \/ FindBorderCells
    \/ StampCell
    \/ Relabel

SpecStitch == InitStitch /\ [][NextStitch]_vars

\* SpecProc: a processing call in single mode on every bounded grid, each
\* cell holding a tile of its own or None.
InitProc ==
    /\ call = ExampleCall
    /\ ret = NoRet
    /\ DeepTileIdle
    /\ pc = "processing"
    /\ \E tiling \in (1..MaxProcRows) \X (1..MaxProcCols) :
         \E present \in SUBSET Grid(tiling) :
           \E func \in {"leaf", "wrapped", "pair"}, batch_axis \in BOOLEAN :
             proc = NewProcess(func, batch_axis, tiling,
                               [n \in Grid(tiling) |->
                                  IF n \in present
                                  THEN [tile |-> Raster(n, tiling[2])]
                                  ELSE None])

NextProc ==
    \/ ProcessSingle
    \/ ProcessReturn

SpecProc == InitProc /\ [][NextProc]_vars

\* A Profile object: its identity and the tiling it describes.
Profile(id, tiling) == [id |-> id, tiling |-> tiling]

\* A TileArray over a grid: a tile of its own in every present cell (subs
\* = 0), or a stack of subs sub-tiles there, as a call with a batch axis
\* leaves it.
TileArray(tiling, present, shape0, subs, profile, stackable) ==
    [tiles |-> [n \in Grid(tiling) |->
                  IF n \notin present THEN None
                  ELSE IF subs = 0
                       THEN [tile |-> Raster(n, tiling[2]) + 1, shape0 |-> shape0]
                       ELSE [stack |-> [k \in 1..subs |->
                                          [tile |-> 10 * (Raster(n, tiling[2]) + 1) + k,
                                           shape0 |-> shape0]]]],
     profile |-> profile, mask |-> present, stackable |-> stackable]

RECURSIVE Batches(_, _)
\* The indices cut into batches of batch_size, in order, the last one
\* possibly short.
Batches(indices, batch_size) ==
    IF Len(indices) <= batch_size
    THEN IF indices = << >> THEN << >> ELSE <<indices>>
    ELSE <<SubSeq(indices, 1, batch_size)>>
         \o Batches(SubSeq(indices, batch_size + 1, Len(indices)), batch_size)

RECURSIVE WithSubIndices(_, _)
\* (row, col, sub-batch-index) triples: every index followed by the
\* position of each sub-tile of its cell.
WithSubIndices(indices, grid) ==
    IF indices = << >> THEN << >>
    ELSE [k \in 1..Len(grid[Head(indices)].stack) |-> Head(indices) \o <<k - 1>>]
         \o WithSubIndices(Tail(indices), grid)

\* The batch indices of a call on a TileArray.
BatchIndices(ts, tiling, batch_size) ==
    LET nonempty == get_nonempty_indices(ts.tiles, tiling)
    IN  IF \E n \in DOMAIN ts.tiles :
              ts.tiles[n] # None /\ "stack" \in DOMAIN ts.tiles[n]
        THEN Batches(WithSubIndices(nonempty, ts.tiles), batch_size)
        ELSE Batches(nonempty, batch_size)

\* A job that has not been created.
NoJob ==
    [error |-> "none", input |-> None, id |-> 0, type |-> "", kwargs |-> None,
     output |-> None, assigned |-> 0]

\* The keyword parameters of the originating operation, as locals() gives
\* them to Job.
JobKwargs(func, batch_size) ==
    [self |-> [deeptile |-> 1], func |-> func, batch_size |-> batch_size]

\* The state of a vectorized processing call on the TileArrays `args`.
NewCall(func, deviation, deviates_from, batch_axis, pad_final_batch, batch_size, tiling, args, link_data) ==
    [func |-> func, deviation |-> deviation, deviates_from |-> deviates_from,
     batch_axis |-> batch_axis, pad_final_batch |-> pad_final_batch,
     batch_size |-> batch_size, tiling |-> tiling, args |-> args,
     link_data |-> link_data, job_kwargs |-> JobKwargs(func, batch_size),
     job |-> NoJob, queue |-> BatchIndices(args[1], tiling, batch_size),
     processed_istree |-> "None", processed_indices |-> << >>,
     processed_tiles |-> [istree |-> FALSE, leaves |-> << >>],
     before |-> [istree |-> FALSE, leaves |-> << >>],
     calls |-> << >>, writes |-> << >>, error |-> "none"]

\* SpecBatch: a vectorized call with a well-behaved function on every
\* bounded grid, batch size, tile shape and form of batch indices.
InitBatch ==
    /\ call = ExampleCall
    /\ ret = NoRet
    /\ DeepTileIdle
    /\ pc = "checking"
    /\ \E tiling \in (1..MaxProcRows) \X (1..MaxProcCols) :
         \E present \in SUBSET Grid(tiling) :
           \E batch_size \in 1..MaxBatch, shape0 \in 1..MaxShape0, subs \in 0..MaxSub :
             \E func \in {"leaf", "pair"} :
               \E batch_axis \in BOOLEAN, pad_final_batch \in BOOLEAN,
                  stackable \in BOOLEAN :
                 proc = NewCall(func, "none", 1, batch_axis, pad_final_batch,
                                batch_size, tiling,
                                <<TileArray(tiling, present, shape0, subs, Profile(1, tiling),
                                             stackable)>>,
                                TRUE)

NextCall ==
    \/ CheckCompatability
    \/ CreateJob
    \/ ProcessVectorized
    \/ ProcessReturn

SpecBatch == InitBatch /\ [][NextCall]_vars

\* A mask that differs from `present` in at most one grid coordinate.
NearbyMasks(tiling, present) ==
    {present} \cup {(present \ {n}) \cup ({n} \ present) : n \in Grid(tiling)}

\* SpecCall: a vectorized call on one TileArray or on MaxInputs of them,
\* the later ones under the first one's Profile object or under another
\* Profile of equal content, with its mask or a mask one cell apart; data
\* linking on or off.
InitCall ==
    /\ call = ExampleCall
    /\ ret = NoRet
    /\ DeepTileIdle
    /\ pc = "checking"
    /\ \E tiling \in (1..MaxProcRows) \X (1..MaxProcCols) :
         \E present \in SUBSET Grid(tiling) :
           \E others \in UNION {[1..k -> (1..MaxInputs) \X NearbyMasks(tiling, present)] :
                                  k \in 0..(MaxInputs - 1)} :
             \E func \in {"leaf", "wrapped", "pair"}, batch_size \in 1..MaxBatch,
                link_data \in BOOLEAN :
               proc = NewCall(func, "none", 1, FALSE, FALSE, batch_size, tiling,
                              <<TileArray(tiling, present, 1, 0, Profile(1, tiling), TRUE)>>
                              \o [k \in DOMAIN others |->
                                    TileArray(tiling, others[k][2], 1, 0,
                                              Profile(others[k][1], tiling), TRUE)],
                              link_data)

SpecCall == InitCall /\ [][NextCall]_vars

\* The user functions of SpecFail: what they return, and how they deviate.
Deviations ==
    ({"leaf", "wrapped", "pair"} \X {"raises", "short"})
        \cup ({"pair"} \X {"extra_leaf", "missing_leaf"})

\* SpecFail: a vectorized call whose user function deviates from its
\* MaxDeviatesFrom-th invocation on, or from an earlier one.
InitFail ==
    /\ call = ExampleCall
    /\ ret = NoRet
    /\ DeepTileIdle
    /\ pc = "checking"
    /\ \E tiling \in (1..MaxProcRows) \X (1..MaxProcCols) :
         \E present \in SUBSET Grid(tiling) :
           \E d \in Deviations, deviates_from \in 1..MaxDeviatesFrom,
              batch_size \in 1..MaxBatch, batch_axis \in BOOLEAN :
             proc = NewCall(d[1], d[2], deviates_from, batch_axis, FALSE, batch_size,
                            tiling,
                            <<TileArray(tiling, present, 1, 0, Profile(1, tiling), TRUE)>>,
                            TRUE)

SpecFail == InitFail /\ [][NextCall]_vars

\* An output grid before any scatter, the function that updates it and the
\* way it is called.
NewScatter(module, batch_axis, output_type, tiling) ==
    [module |-> module, batch_axis |-> batch_axis, output_type |-> output_type,
     tiling |-> tiling, processed_tiles |-> Tiled(tiling, 1), log |-> << >>]

\* SpecScatter: up to MaxScatters scatters into the cells of one grid, by
\* process.update_tiles with or without the batch-axis flag, or by
\* utils.update_tiles with no batch axis or a batch axis 0..MaxBatchAxis and
\* either output type.
InitScatter ==
    /\ call = ExampleCall
    /\ ret = NoRet
    /\ DeepTileIdle
    /\ pc = "scatter"
    /\ \E tiling \in (1..MaxProcRows) \X (1..MaxProcCols) :
         \/ \E batch_axis \in BOOLEAN :
              proc = NewScatter("process", batch_axis, "tiled_image", tiling)
         \/ \E batch_axis \in {None} \cup [axis : 0..MaxBatchAxis],
               output_type \in {"tiled_image", "tiled_coords"} :
              proc = NewScatter("utils", batch_axis, output_type, tiling)

NextScatter ==
    \/ ScatterProcess
    \/ ScatterUtils

SpecScatter == InitScatter /\ [][NextScatter]_vars

(***************************************************************************)
(* Claims about the index computation, checked under SpecIdx.              *)
(***************************************************************************)
Returned == ret # NoRet

OverlapSize == calculate_overlap_size(call.tile_size, call.overlap)

NonDecreasing(s) ==
    \A k \in 1..(Len(s) - 1) : s[k] <= s[k + 1]

\* The properties C1 lists, of a returned geometry r for an axis of size n.
BorderPointsWellFormed(r, n) ==
    /\ Len(r.border_indices) = r.tiling + 1
    /\ r.border_indices[1] = 0
    /\ r.border_indices[Len(r.border_indices)] = n
    /\ NonDecreasing(r.border_indices)
    /\ \A k \in DOMAIN r.tile_indices :
           0 <= r.tile_indices[k][1] /\ r.tile_indices[k][2] <= n

\* C1: for every axis_size, tile_size and overlap with tile_size > overlap_size
\* (axis_size <= tile_size and axis_size <= overlap_size included),
\* calculate_indices_1d returns border points that are non-decreasing, start
\* at 0, end at axis_size and number tiling + 1, and every tile range lies
\* within [0, axis_size].
C1_BorderPointsAlways ==
    (Returned /\ call.tile_size > OverlapSize)
        => (ret.error = "none" /\ BorderPointsWellFormed(ret, call.axis_size))

\* C1 where the call returns at all: the listed properties hold of every
\* returned geometry (the call raises exactly when axis_size <= overlap_size).
C1_WellFormedWhenReturned ==
    (Returned /\ call.tile_size > OverlapSize)
        => /\ (ret.error = "none") <=> (call.axis_size > OverlapSize)
           /\ ret.error = "none" => BorderPointsWellFormed(ret, call.axis_size)

\* C2: in every geometry calculate_indices_1d produces, for every tile k,
\* tile_indices[k][0] <= border_indices[k] <= border_indices[k+1] <=
\* tile_indices[k][1]: each clean-border interval lies inside its tile.
C2_CleanIntervalInsideTile ==
    (Returned /\ ret.error = "none")
        => \A k \in DOMAIN ret.tile_indices :
               /\ ret.tile_indices[k][1] <= ret.border_indices[k]
               /\ ret.border_indices[k] <= ret.border_indices[k + 1]
               /\ ret.border_indices[k + 1] <= ret.tile_indices[k][2]

\* A geometry of three or more tiles with a real overlap was produced.
C2_Witness ==
    /\ Returned
    /\ ret.error = "none"
    /\ ret.tiling >= 3
    /\ OverlapSize >= 2

\* The reference formula of C3, in closed form per tile and per boundary.
ReferenceIndices(axis_size, tile_size, overlap) ==
    LET overlap_size == Rint(tile_size * overlap[1], overlap[2])
        step == tile_size - overlap_size
        tiling == Ceil(axis_size - overlap_size, step)
        n == IF tiling > 0 THEN tiling ELSE 0
    IN  [error |-> "none",
         tiling |-> tiling,
         tile_indices |->
             [k \in 1..n |->
                 <<(k - 1) * step,
                   IF k = n THEN axis_size ELSE (k - 1) * step + tile_size>>],
         border_indices |->
             [k \in 1..(n + 1) |->
                 IF k = 1 THEN 0
                 ELSE IF k = n + 1 THEN axis_size
                 ELSE (k - 1) * step + Rint(overlap_size, 2)]]

\* C3: calculate_indices_1d agrees with the reference formula for every
\* bounded input with tile_size > overlap_size (axis 100, tile 60, overlap
\* 0.1 gives tiling 2, ranges [[0,60],[54,100]], borders [0,57,100]).
C3_AgreesWithReference ==
    (Returned /\ call.tile_size > OverlapSize)
        => ret = ReferenceIndices(call.axis_size, call.tile_size, call.overlap)

\* C3 where the call returns: every returned geometry is the reference one,
\* and the documented example evaluates to the documented numbers.
C3_AgreesWhenReturned ==
    /\ (Returned /\ ret.error = "none")
           => ret = ReferenceIndices(call.axis_size, call.tile_size, call.overlap)
    /\ (Returned /\ call = ExampleCall)
           => ret = [error |-> "none", tiling |-> 2,
                     tile_indices |-> <<(<<0, 60>>), (<<54, 100>>)>>,
                     border_indices |-> <<0, 57, 100>>]

\* C4: whenever round(tile_size * overlap) >= tile_size, calculate_indices_1d
\* fails with an InvalidGeometry error.
C4_InvalidGeometryRaised ==
    (Returned /\ OverlapSize >= call.tile_size)
        => ret.error = "InvalidGeometry"

\* What the code does there: it fails, but only by accident of the undefined
\* cast (np.stack or np.arange raises), never by a geometry check.
C4_FailsIncidentally ==
    (Returned /\ OverlapSize >= call.tile_size)
        => ret.error \in {"ValueError", "MemoryError"}

(***************************************************************************)
(* Claims about stitching, checked under SpecGeom and SpecStitch.          *)
(***************************************************************************)
AllNonempty == \A n \in DOMAIN tiles : tiles[n] # None

\* The global clean rectangle of a stitch index entry, as a set of pixels.
CleanRect(si) ==
    {p \in PixelsOf(self.image) :
        /\ si.i_image[1] <= p[1] /\ p[1] < si.i_image[2]
        /\ si.j_image[1] <= p[2] /\ p[2] < si.j_image[2]}

CleanRectOf(n) == CleanRect(StitchIndex(n, self.tile_indices, self.border_indices))

\* The foreground of the mask of tile n, in image coordinates.
FootprintOfMask(n) ==
    IF masks[n] = None THEN {}
    ELSE {<<p[1] + self.tile_indices[1][n[1] + 1][1],
            p[2] + self.tile_indices[2][n[2] + 1][1]>> :
             p \in {q \in PixelsOf(masks[n]) : masks[n].data[q] # 0}}

\* The part of the image tile n sees.
Extent(n) ==
    {p \in PixelsOf(self.image) :
        /\ self.tile_indices[1][n[1] + 1][1] <= p[1]
        /\ p[1] < self.tile_indices[1][n[1] + 1][2]
        /\ self.tile_indices[2][n[2] + 1][1] <= p[2]
        /\ p[2] < self.tile_indices[2][n[2] + 1][2]}

Connected(S) == S = {} \/ Grow({CHOOSE p \in S : TRUE}, S) = S

LabelsOn(S) == {stitched.data[p] : p \in S} \ {0}

\* C5: the nonzero labels of the slice returned by _stitch_masks are exactly
\* 1..n for some n >= 0, and 0 is used only for background.
C5_LabelsConsecutive ==
    pc = "done" =>
        /\ Labels(stitched) = 1..Cardinality(Labels(stitched))
        /\ \A p \in PixelsOf(stitched) : stitched.data[p] >= 0

C5_Witness ==
    /\ pc = "done"
    /\ Len(self.stitch_indices) >= 2
    /\ border_cells # << >>
    /\ Cardinality(Labels(stitched)) >= 2

\* One physical object, segmented by every tile in the part the tile sees
\* (one label per tile), that has pixels in two clean rectangles.
StraddlingObject ==
    LET O == UNION {FootprintOfMask(n) : n \in DOMAIN masks}
    IN  /\ AllNonempty
        /\ O # {}
        /\ Connected(O)
        /\ \A n \in DOMAIN masks :
             /\ FootprintOfMask(n) = O \cap Extent(n)
             /\ Cardinality(Labels(masks[n])) <= 1
             /\ Connected(FootprintOfMask(n))
        /\ \E n, m \in DOMAIN masks :
             n # m /\ O \cap CleanRectOf(n) # {} /\ O \cap CleanRectOf(m) # {}

\* C6: an object that crosses a clean border and is segmented in the masks
\* of the tiles it touches carries exactly one nonzero label in the output
\* of _stitch_masks.
C6_OneLabelPerStraddlingObject ==
    (pc = "done" /\ StraddlingObject) =>
        Cardinality(LabelsOn(UNION {FootprintOfMask(n) : n \in DOMAIN masks})) = 1

\* Tiles n and m are neighbours, each holds one segment (a half), nothing
\* else is segmented anywhere, the halves share no pixel and form one
\* connected object, and the border scan collected a cell of each.
DisjointHalves(n, m) ==
    /\ \/ n[1] = m[1] /\ m[2] = n[2] + 1
       \/ n[2] = m[2] /\ m[1] = n[1] + 1
    /\ \A o \in {n, m} :
         /\ masks[o] # None
         /\ Cardinality(Labels(masks[o])) = 1
         /\ Connected(FootprintOfMask(o))
    /\ \A o \in DOMAIN masks \ {n, m} : FootprintOfMask(o) = {}
    /\ FootprintOfMask(n) \cap FootprintOfMask(m) = {}
    /\ Connected(FootprintOfMask(n) \cup FootprintOfMask(m))
    /\ {n, m} \subseteq {border_cells[k].position : k \in DOMAIN border_cells}

C8_CleanRectanglesPartition ==
    (pc \in {"indexed", "interior", "border", "stitched_nd2"} /\ AllNonempty) =>
        /\ Len(self.stitch_indices) = self.n_blocks[1] * self.n_blocks[2]
        /\ \A p \in PixelsOf(self.image) :
             Cardinality({k \in DOMAIN self.stitch_indices :
                            p \in CleanRect(self.stitch_indices[k])}) = 1

C8_Witness ==
    /\ pc = "border"
    /\ AllNonempty
    /\ self.n_blocks[1] >= 2
    /\ self.n_blocks[2] >= 2
    /\ self.tile_indices[1][1][2] > self.tile_indices[1][2][1]
    /\ self.tile_indices[2][1][2] > self.tile_indices[2][2][1] + 1

\* C9: splitting a ground-truth label image into tiles and running the
\* interior stitch pass on them reproduces the image exactly.
C9_InteriorRoundTrip ==
    (pc = "border" /\ AllNonempty /\ masks = tiles) => stitched = self.image

\* C9 as the code has it: cutting the clean crops out of the tiles and
\* pasting them (_stitch_nd2) reproduces the image exactly; the interior
\* pass of _stitch_masks, which relabels every crop and offsets its labels,
\* reproduces it inside each clean rectangle up to the names of the labels.
C9_CropPasteRoundTrip ==
    /\ (pc = "stitched_nd2" /\ AllNonempty) => stitched = self.image
    /\ (pc = "border" /\ AllNonempty /\ masks = tiles) =>
           \A k \in DOMAIN self.stitch_indices :
               \A p, q \in CleanRect(self.stitch_indices[k]) :
                   /\ (stitched.data[p] = 0) <=> (self.image.data[p] = 0)
                   /\ stitched.data[p] = stitched.data[q]
                          => self.image.data[p] = self.image.data[q]

C9_Witness ==
    /\ pc = "stitched_nd2"
    /\ AllNonempty
    /\ self.n_blocks[1] >= 2
    /\ self.n_blocks[2] >= 2
    /\ self.tile_indices[2][1][2] > self.tile_indices[2][2][1]
    /\ Cardinality(Labels(self.image)) >= 9
    /\ stitched = self.image

(***************************************************************************)
(* Claims about processing, checked under SpecProc.                        *)
(***************************************************************************)
NonemptyCells == {n \in DOMAIN proc.args : proc.args[n] # None}

\* C10: on a grid with exactly one nonempty cell, processing in single mode
\* calls the user function exactly once, writes its result only at that
\* cell, and leaves every other cell of every output grid None.
C10_SingleCellProcessedOnce ==
    (pc = "processed" /\ Cardinality(NonemptyCells) = 1) =>
        \A n \in NonemptyCells :
            /\ Len(proc.calls) = 1
            /\ proc.calls[1] = [index |-> n, args |-> proc.args[n]]
            /\ proc.processed_tiles.leaves # << >>
            /\ \A k \in DOMAIN proc.processed_tiles.leaves :
                 \A m \in Grid(proc.tiling) :
                     LET cell == proc.processed_tiles.leaves[k].tiles[m]
                         written == [of |-> proc.args[n], part |-> k - 1]
                     IN  IF m = n
                         THEN cell = IF proc.batch_axis
                                     THEN [stack |-> <<written>>] ELSE written
                         ELSE cell = None

C10_Witness ==
    /\ pc = "processed"
    /\ Cardinality(NonemptyCells) = 1
    /\ proc.tiling = <<2, 3>>
    /\ proc.func = "pair"
    /\ Len(proc.calls) = 1
    /\ proc.processed_tiles.leaves[2].tiles[proc.calls[1].index] # None

(***************************************************************************)
(* Claims about vectorized processing, checked under SpecBatch.            *)
(***************************************************************************)
\* The grid coordinates that hold a tile in the call's first TileArray.
Present == proc.args[1].mask

\* Whether the batch indices of the call are (row, col) pairs.
PairIndices ==
    \A n \in Present : "stack" \notin DOMAIN proc.args[1].tiles[n]

\* C11: in vectorized mode with stackable tiles and pad_final_batch set,
\* every call of the user function, the one for a short final batch
\* included, receives exactly batch_size stacked entries whatever the shape
\* of the tiles, and when the call returns every output grid has a
\* populated cell exactly at the nonempty coordinates.
C11_FinalBatchPadded ==
    (proc.pad_final_batch /\ proc.args[1].stackable /\ PairIndices) =>
        /\ \A k \in DOMAIN proc.calls :
               Len(proc.calls[k].args.entries) = proc.batch_size
        /\ pc = "processed" =>
               \A k \in DOMAIN proc.processed_tiles.leaves :
                   \A n \in Grid(proc.tiling) :
                       (proc.processed_tiles.leaves[k].tiles[n] # None) <=> (n \in Present)

\* C16: without a batch axis no grid coordinate of an output leaf is
\* written twice during a call, whatever the form of the batch indices, and
\* when the call returns every nonempty coordinate of every leaf has been
\* written exactly once.
C16_WrittenAtMostOnce ==
    ~proc.batch_axis =>
        /\ \A i, j \in DOMAIN proc.writes :
               i # j => proc.writes[i] # proc.writes[j]
        /\ pc = "processed" =>
               \A k \in DOMAIN proc.processed_tiles.leaves :
                   \A n \in Present :
                       \E i \in DOMAIN proc.writes :
                           proc.writes[i] = [leaf |-> k, index |-> n]

(***************************************************************************)
(* Claims about a whole processing call, checked under SpecCall.           *)
(***************************************************************************)
\* Some input does not share the first input's Profile object or its mask.
Incompatible ==
    \E k \in DOMAIN proc.args :
        \/ proc.args[k].profile.id # proc.args[1].profile.id
        \/ proc.args[k].mask # proc.args[1].mask

\* The errors check_compatability raises for a mismatch.
ProfileMismatch ==
    {"ValueError: tiles must all share a common profile.",
     "ValueError: tiles must all share a common mask."}

\* C12: once the inputs of a call have been checked, the call has failed
\* with a mismatch error, before any invocation of the user function, if
\* and only if some input does not share the first input's Profile object
\* (by identity) or its mask; otherwise the check has passed.
C12_MismatchIffIncompatible ==
    pc # "checking" =>
        IF Incompatible
        THEN pc = "error" /\ proc.error \in ProfileMismatch /\ proc.calls = << >>
        ELSE proc.error \notin ProfileMismatch

\* Two inputs of equal mask under two Profile objects of equal content have
\* been rejected.
C12_Witness ==
    /\ pc = "error"
    /\ Len(proc.args) = 2
    /\ proc.args[2].mask = proc.args[1].mask
    /\ proc.args[2].profile.tiling = proc.args[1].profile.tiling
    /\ proc.args[2].profile.id # proc.args[1].profile.id
    /\ proc.error \in ProfileMismatch
    /\ proc.calls = << >>

\* C18: the output field of the call's job is None when the job has been
\* created, is never assigned more than once, and has been assigned exactly
\* once when a call that processed some tile returns, whatever the number
\* of output leaves and whether or not data linking is on.
C18_OutputAssignedOnce ==
    /\ (pc = "processing" /\ proc.calls = << >>) =>
           (proc.job.output = None /\ proc.job.assigned = 0)
    /\ proc.job.assigned <= 1
    /\ (pc = "processed" /\ proc.calls # << >>) => proc.job.assigned = 1

\* C19: once the job of a call has been created, its recorded kwargs are
\* the keyword parameters of the call without the 'self' entry, and its
\* type is the type tag it was given.
C19_KwargsWithoutSelf ==
    pc \in {"processing", "processed"} =>
        /\ proc.job.type = "process"
        /\ proc.job.kwargs =
               [name \in DOMAIN proc.job_kwargs \ {"self"} |-> proc.job_kwargs[name]]

(***************************************************************************)
(* Claims about failing calls, checked under SpecFail.                     *)
(***************************************************************************)
\* The shape of the tree invocation k of the user function returned.
ShapeOf(k) == <<proc.calls[k].istree, proc.calls[k].n_leaves>>

\* C13: when a later invocation of the user function returns a tree whose
\* shape differs from the shape of the first result, the call has failed
\* and that invocation is the last one of the call.
C13_ShapeChangeFailsTheCall ==
    \A k \in DOMAIN proc.calls :
        (~proc.calls[k].raised /\ ~proc.calls[1].raised /\ ShapeOf(k) # ShapeOf(1)) =>
            (pc = "error" /\ k = Len(proc.calls))

\* The content of a grid cell of an output leaf; None while the leaf's grid
\* does not exist.
CellOf(processed_tiles, k, n) ==
    IF k \in DOMAIN processed_tiles.leaves
    THEN processed_tiles.leaves[k].tiles[n] ELSE None

\* C14: when the processing of a batch has failed, every cell of every
\* output grid holds what it held before that batch.
C14_FailedBatchWritesNothing ==
    (pc = "error" /\ proc.calls # << >>) =>
        \A k \in DOMAIN proc.processed_tiles.leaves :
            \A n \in Grid(proc.tiling) :
                CellOf(proc.processed_tiles, k, n) = CellOf(proc.before, k, n)

(***************************************************************************)
(* Claims about scatters into a grid, checked under SpecScatter.           *)
(***************************************************************************)
\* The results scattered to a grid coordinate so far, in scatter order.
ScatteredTo(n) ==
    LET To(e) == e.index = n
        hits == SelectSeq(proc.log, To)
    IN  [k \in DOMAIN hits |-> hits[k].tile]

\* Whether the updating function was given a batch axis.
BatchAxisSet ==
    IF proc.module = "process" THEN proc.batch_axis ELSE proc.batch_axis # None

\* The axis along which utils.update_tiles was asked to collect results.
BatchAxis ==
    IF proc.output_type = "tiled_image" THEN proc.batch_axis.axis ELSE 0

\* The cell that holds results along the axis numbered `axis`, as each of
\* the two functions builds it.
Along(axis, results) ==
    IF proc.module = "process" THEN [stack |-> results]
    ELSE [axis |-> axis, stack |-> results]

\* C15 as stated: with a batch axis set, a cell that received n >= 1
\* scatters holds the n results in scatter order along a leading axis of
\* length n, and a cell that received none is None.
C15_ResultsAlongLeadingAxis ==
    BatchAxisSet =>
        \A n \in Grid(proc.tiling) :
            proc.processed_tiles.tiles[n] =
                IF ScatteredTo(n) = << >> THEN None ELSE Along(0, ScatteredTo(n))

\* C15, amended: with a batch axis set, a cell that received n >= 1 scatters
\* holds the n results in scatter order along the batch axis, of length n:
\* the leading axis for process.update_tiles and for 'tiled_coords' output,
\* the axis numbered batch_axis for 'tiled_image' output of
\* utils.update_tiles.
C15_ResultsAlongBatchAxis ==
    BatchAxisSet =>
        \A n \in Grid(proc.tiling) :
            proc.processed_tiles.tiles[n] =
                IF ScatteredTo(n) = << >> THEN None
                ELSE Along(IF proc.module = "process" THEN 0 ELSE BatchAxis,
                           ScatteredTo(n))

\* One cell has received MaxScatters scatters through process.update_tiles
\* under a batch axis, the first two with different results.
C15_Witness ==
    /\ proc.module = "process"
    /\ proc.batch_axis
    /\ \E n \in Grid(proc.tiling) :
         /\ Len(ScatteredTo(n)) = MaxScatters
         /\ ScatteredTo(n)[1] # ScatteredTo(n)[2]
         /\ proc.processed_tiles.tiles[n] = [stack |-> ScatteredTo(n)]

(***************************************************************************)
(* Claims about the border reconciliation pass, checked under SpecStitch.  *)
(***************************************************************************)
\* The candidate the reconciliation loop visits next.
Candidate == Candidates(border_cells)[cursor]

\* The footprint, in image coordinates, of the fragment the loop looks up
\* for a candidate.
CandidateFootprint(cand) ==
    Footprint(self, cand.position, PickRegion(masks[cand.position], cand.cell))

C20_LookupFindsLabel ==
    (pc = "stamp" /\ cursor <= Len(Candidates(border_cells))) =>
        PickRegion(masks[Candidate.position], Candidate.cell).label = Candidate.cell

\* C21: for every interior boundary of every geometry the index computation
\* produced, the line scanned by _find_border_cells lies inside the overlap
\* strip: 0 <= border_index < end of the lower tile - start of the upper
\* tile.
C21_BorderIndexInsideStrip ==
    \A k \in DOMAIN Scans(self.n_blocks) :
        LET t == Scans(self.n_blocks)[k]
        IN  0 <= BorderIndex(self, t) /\ BorderIndex(self, t) < StripWidth(self, t)

====
